---------------------------- MODULE Spec2Model ----------------------------
(***************************************************************************)
(* Model of ctaocrypt/src/ecc25519.c (CyaSSL): the curve25519 Montgomery   *)
(* ladder and the key manager built on it (make_key, shared_secret,        *)
(* import/export, init, free, size).                                       *)
(*                                                                         *)
(* Byte buffers are functions on 0..len-1, indexed as in C.  The field     *)
(* arithmetic (ecc25519_fe.h) and the straight-line ladder step            *)
(* (ecc25519_montgomery.h) are included by the source but are not part of  *)
(* it; they are modelled from their contract, over the prime 2^15 - 19 in  *)
(* place of 2^255 - 19 so that every product fits a 32-bit integer.        *)
(***************************************************************************)
EXTENDS Integers, Sequences, FiniteSets, TLC

VARIABLES
    keys,     \* the caller's ecc25519_key objects: [dp, f, p, k]
    op,       \* name of the last key-manager call ("none" before any)
    args,     \* its arguments, with the caller's buffers as passed
    pre,      \* keys as they were when the call was made
    ret,      \* its return value
    fault,    \* TRUE when the call ended in a memory fault (process stopped)
    ub,       \* the invalid memory accesses the call made
    out,      \* the caller's output buffer after the call
    outlen,   \* the caller's length cell after the call
    locals,   \* the callee's local byte buffers as left at return
    ncalls,   \* number of key-manager calls made so far
    made,     \* keys whose present content a successful make_key produced
    lad       \* the ladder run of curve25519, one loop iteration per step

vars == <<keys, op, args, pre, ret, fault, ub, out, outlen, locals, ncalls, made, lad>>

kmvars == <<keys, op, args, pre, ret, fault, ub, out, outlen, locals, ncalls, made>>

(***************************************************************************)
(* Program constants.                                                      *)
(***************************************************************************)
ECC25519_KEYSIZE == 32

montgomery_x_le == 65

ecc25519_sets_size == 32

BAD_FUNC_ARG == -173

ECC_BAD_ARG_E == -170

BUFFER_E == -132

RNG_FAILURE_E == -199

NULL == 0

(***************************************************************************)
(* Bytes and byte buffers.                                                 *)
(***************************************************************************)
Byte == 0..255

Pow2(i) == IF i = 0 THEN 1 ELSE IF i = 1 THEN 2 ELSE IF i = 2 THEN 4
           ELSE IF i = 3 THEN 8 ELSE IF i = 4 THEN 16 ELSE IF i = 5 THEN 32
           ELSE IF i = 6 THEN 64 ELSE 128

\* (v >> i) & 1 on a byte
BitOf(v, i) == (v \div Pow2(i)) % 2

\* v & 248, v & 127, v | 64 on a byte
And248(v) == v - (v % 8)

And127(v) == v % 128

Or64(v) == IF BitOf(v, 6) = 1 THEN v ELSE v + 64

\* a buffer of len bytes all equal to v (XMEMSET)
Fill(len, v) == [i \in 0..(len - 1) |-> v]

Zero32 == Fill(ECC25519_KEYSIZE, 0)

\* the loops at lines 122-125 and 159-162: dst[keysize - i - 1] = src[i]
Reverse32(b) == [i \in 0..(ECC25519_KEYSIZE - 1) |-> b[ECC25519_KEYSIZE - i - 1]]

\* lines 61-63 (and 113-115): the clamp
Clamp(n) == [n EXCEPT ![0] = And248(n[0]), ![31] = Or64(And127(n[31]))]

(***************************************************************************)
(* Field arithmetic engine (ecc25519_fe.h), from its contract.             *)
(***************************************************************************)
FieldPrime == 32749

Fe == 0..(FieldPrime - 1)

fe_0 == 0

fe_1 == 1

fe_add(f, g) == (f + g) % FieldPrime

fe_sub(f, g) == (f + FieldPrime - g) % FieldPrime

fe_mul(f, g) == (f * g) % FieldPrime

fe_sq(f) == (f * f) % FieldPrime

fe_mul121666(f) == (f * (121666 % FieldPrime)) % FieldPrime

\* f^16: four squarings
Sq4(f) == fe_sq(fe_sq(fe_sq(fe_sq(f))))

\* f^e by a fixed window of four exponent bits per level
RECURSIVE FePow(_, _)
FePow(f, e) ==
    IF e = 0 THEN 1
    ELSE IF e = 1 THEN f % FieldPrime
    ELSE IF e < 16
      THEN LET h == FePow(f, e \div 2)
           IN  IF e % 2 = 1 THEN fe_mul(fe_sq(h), f) ELSE fe_sq(h)
    ELSE fe_mul(Sq4(FePow(f, e \div 16)), FePow(f, e % 16))

\* z^(p-2): the inverse of a nonzero z, and 0 for z = 0
fe_invert(z) == IF z = 0 THEN 0 ELSE FePow(z, FieldPrime - 2)

\* constant-time conditional swap: <<f, g>> exchanged iff b = 1
fe_cswap(f, g, b) == IF b = 1 THEN <<g, f>> ELSE <<f, g>>

\* 256^k as a field element
Radix(k) == FePow(256 % FieldPrime, k)

\* the little-endian number s[lo..hi] as a field element, bit 255 ignored;
\* the range is halved so that evaluation nests only logarithmically deep
RECURSIVE FromBytesRange(_, _, _)
FromBytesRange(s, lo, hi) ==
    IF lo = hi THEN (IF lo = 31 THEN And127(s[lo]) ELSE s[lo]) % FieldPrime
    ELSE LET mid == (lo + hi) \div 2
         IN  fe_add(FromBytesRange(s, lo, mid),
                    fe_mul(Radix(mid + 1 - lo), FromBytesRange(s, mid + 1, hi)))

\* little-endian decode of 32 bytes, bit 255 ignored, as a field element
fe_frombytes(s) == FromBytesRange(s, 0, ECC25519_KEYSIZE - 1)

\* little-endian encode of the fully reduced element into 32 bytes; the
\* reduced element is below 2^15, so bytes 2..31 are 0
fe_tobytes(h) ==
    [i \in 0..(ECC25519_KEYSIZE - 1) |->
        IF i = 0 THEN (h % FieldPrime) % 256
        ELSE IF i = 1 THEN ((h % FieldPrime) \div 256) % 256
        ELSE 0]

(***************************************************************************)
(* curve25519 (lines 45-89): the Montgomery ladder.                        *)
(***************************************************************************)
\* the straight-line step of ecc25519_montgomery.h on (x2,z2,x3,z3)
MontgomeryStep(x1, x2, z2, x3, z3) ==
    LET t0a == fe_sub(x3, z3)
        t1a == fe_sub(x2, z2)
        x2a == fe_add(x2, z2)
        z2a == fe_add(x3, z3)
        z3a == fe_mul(t0a, x2a)
        z2b == fe_mul(z2a, t1a)
        t0b == fe_sq(t1a)
        t1b == fe_sq(x2a)
        x3a == fe_add(z3a, z2b)
        z2c == fe_sub(z3a, z2b)
        x2b == fe_mul(t1b, t0b)
        t1c == fe_sub(t1b, t0b)
        z2d == fe_sq(z2c)
        z3b == fe_mul121666(t1c)
        x3b == fe_sq(x3a)
        t0c == fe_add(t0b, z3b)
        z3c == fe_mul(x1, z2d)
        z2e == fe_mul(t1c, t0c)
    IN  [x2 |-> x2b, z2 |-> z2e, x3 |-> x3b, z3 |-> z3c]

\* line 73-74: b = (e[pos / 8] >> (pos & 7)) & 1
ScalarBit(e, pos) == BitOf(e[pos \div 8], pos % 8)

Xor(a, b) == (a + b) % 2

\* lines 65-71: the registers before the loop
LadderInit(p) ==
    [x1 |-> fe_frombytes(p), x2 |-> fe_1, z2 |-> fe_0,
     x3 |-> fe_frombytes(p), z3 |-> fe_1, swap |-> 0]

\* line 75: swap ^= b
SwapUpdate(swap, b) == Xor(swap, b)

\* a faulty line 78: the flag is not reset to the current bit
SwapCarryStale(swap, b) == swap

\* line 78: swap = b
SwapCarry(swap, b) == b

\* lines 73-79: one iteration of the loop for bit position pos
LadderIter(r, e, pos) ==
    LET b  == ScalarBit(e, pos)
        sw == SwapUpdate(r.swap, b)
        xs == fe_cswap(r.x2, r.x3, sw)
        zs == fe_cswap(r.z2, r.z3, sw)
        m  == MontgomeryStep(r.x1, xs[1], zs[1], xs[2], zs[2])
    IN  [x1 |-> r.x1, x2 |-> m.x2, z2 |-> m.z2, x3 |-> m.x3, z3 |-> m.z3,
         swap |-> SwapCarry(sw, b)]

\* lines 81-82: the final conditional swap
LadderFinalSwap(r) ==
    LET xs == fe_cswap(r.x2, r.x3, r.swap)
        zs == fe_cswap(r.z2, r.z3, r.swap)
    IN  [r EXCEPT !.x2 = xs[1], !.x3 = xs[2], !.z2 = zs[1], !.z3 = zs[2]]

\* lines 84-86: q = x2 / z2
LadderOutput(r) == fe_tobytes(fe_mul(r.x2, fe_invert(r.z2)))

TopPos == 254

\* line 72: for (pos = 254; pos >= 0; --pos), here for pos = hi down to lo;
\* the range is halved so that evaluation nests only logarithmically deep
RECURSIVE LadderLoop(_, _, _, _)
LadderLoop(r, e, hi, lo) ==
    IF hi < lo THEN r
    ELSE IF hi = lo THEN LadderIter(r, e, hi)
    ELSE LET mid  == (hi + lo + 1) \div 2
             half == LadderLoop(r, e, hi, mid)
         IN  IF half.swap \in {0, 1} THEN LadderLoop(half, e, mid - 1, lo) ELSE half

\* the bytes curve25519 writes to q for scalar n and point p
LadderResult(n, p) ==
    LadderOutput(LadderFinalSwap(LadderLoop(LadderInit(p), Clamp(n), TopPos, 0)))

\* the local e of curve25519 as it is left at line 88 (it is never cleared)
curve25519_e(n) == Clamp(n)

(***************************************************************************)
(* Inputs of the checked runs.                                             *)
(***************************************************************************)
Blk(b0, fillv, b31) ==
    [i \in 0..(ECC25519_KEYSIZE - 1) |->
        IF i = 0 THEN b0 ELSE IF i = ECC25519_KEYSIZE - 1 THEN b31 ELSE fillv]

\* line 94: unsigned char basepoint[ECC25519_KEYSIZE] = {9}
basepoint == Blk(9, 0, 0)

\* blocks the random source hands out
RandomBlocks == {Blk(255, 90, 255), Blk(165, 198, 68)}

\* a point whose stored top byte has bit 7 set, and one whose has not
HighPoint == Blk(128, 5, 1)

LowPoint == Blk(127, 6, 255)

\* raw private and public keys handed to import_private_raw
PrivInputs == {Blk(3, 2, 129)}

PubInputs == {LowPoint}

\* the scalars and points the keys of the callers usually hold, as
\* curve25519 receives them from make_key and shared_secret
KnownScalars ==
    {Zero32} \cup RandomBlocks \cup {Clamp(n) : n \in RandomBlocks}
      \cup {Reverse32(x) : x \in PrivInputs}

KnownPoints ==
    {basepoint, Zero32} \cup {LadderResult(n, basepoint) : n \in RandomBlocks}
      \cup {Reverse32(x) : x \in PubInputs}

\* the ladder's results on those, computed once
LadderTable == [n \in KnownScalars, p \in KnownPoints |-> LadderResult(n, p)]

\* curve25519(q, n, p): the bytes left in q (looked up when already computed)
curve25519(n, p) ==
    IF n \in KnownScalars /\ p \in KnownPoints THEN LadderTable[n, p]
    ELSE LadderResult(n, p)

(***************************************************************************)
(* The ladder run step by step: one action per loop iteration, with the    *)
(* scalar multiples the registers stand for carried along.                 *)
(***************************************************************************)
\* scalar multiples are counted modulo LabelMod (any cyclic group will do)
LabelMod == 1009

LadderScalars == {Blk(255, 90, 255), Blk(7, 0, 128), Blk(165, 198, 68), Blk(0, 255, 63)}

LadderPoints == {basepoint, Blk(3, 17, 200), Zero32}

\* textbook x-only doubling on the Montgomery curve, (A + 2) / 4 = 121666
xDBL(P) ==
    LET a  == fe_sq(fe_add(P[1], P[2]))
        b  == fe_sq(fe_sub(P[1], P[2]))
        ee == fe_sub(a, b)
    IN  <<fe_mul(a, b), fe_mul(ee, fe_add(b, fe_mul121666(ee)))>>

\* textbook x-only differential addition of P and Q whose difference has x = x1
xADD(P, Q, x1) ==
    LET da == fe_mul(fe_sub(Q[1], Q[2]), fe_add(P[1], P[2]))
        cb == fe_mul(fe_add(Q[1], Q[2]), fe_sub(P[1], P[2]))
    IN  <<fe_sq(fe_add(da, cb)), fe_mul(x1, fe_sq(fe_sub(da, cb)))>>

\* the branching ladder step on the pair (m p, (m+1) p) for the next bit b
RefStep(ref, b, x1) ==
    IF b = 0 THEN <<xDBL(ref[1]), xADD(ref[1], ref[2], x1)>>
    ELSE <<xADD(ref[1], ref[2], x1), xDBL(ref[2])>>

LadStart(n, p) ==
    [n |-> n, p |-> p, e |-> Clamp(n), pos |-> TopPos, r |-> LadderInit(p),
     phase |-> "loop", iters |-> 0, q |-> Zero32,
     m |-> 0, k2 |-> 0, k3 |-> 1,
     ref |-> <<(<<fe_1, fe_0>>), (<<fe_frombytes(p), fe_1>>)>>]

LadIdle == LadStart(Zero32, Zero32)

\* one pass through the loop body, lines 73-79
LadIterate ==
    /\ lad.phase = "loop"
    /\ lad.pos >= 0
    /\ LET b  == ScalarBit(lad.e, lad.pos)
           sw == SwapUpdate(lad.r.swap, b)
           ks == fe_cswap(lad.k2, lad.k3, sw)
       IN  lad' = [lad EXCEPT
                     !.r = LadderIter(lad.r, lad.e, lad.pos),
                     !.pos = lad.pos - 1,
                     !.iters = lad.iters + 1,
                     !.m = (2 * lad.m + b) % LabelMod,
                     !.k2 = (2 * ks[1]) % LabelMod,
                     !.k3 = (ks[1] + ks[2]) % LabelMod,
                     !.ref = RefStep(lad.ref, b, lad.r.x1)]
    /\ UNCHANGED kmvars

\* lines 81-88: the final swap and the output
LadFinish ==
    /\ lad.phase = "loop"
    /\ lad.pos < 0
    /\ LET ks == fe_cswap(lad.k2, lad.k3, lad.r.swap)
           rf == LadderFinalSwap(lad.r)
       IN  lad' = [lad EXCEPT
                     !.r = rf,
                     !.phase = "done",
                     !.q = LadderOutput(rf),
                     !.k2 = ks[1],
                     !.k3 = ks[2]]
    /\ UNCHANGED kmvars

(***************************************************************************)
(* The key manager: caller-side objects.                                   *)
(***************************************************************************)
KeyIds == {1, 2}

KeyPtr == {NULL} \cup KeyIds

\* a key as ecc25519_init leaves it (lines 272-277); dp is TRUE when it
\* points at ecc25519_sets[0] and FALSE when it is NULL
InitKey == [dp |-> TRUE, f |-> montgomery_x_le, p |-> Zero32, k |-> Zero32]

\* the length cell of a caller that passed outlen = NULL
NoCell == 0 - 1

\* a caller's output buffer of cap bytes, holding 0xAA before the call;
\* written collects the indices the callee stored to
OutBuf(present, cap) ==
    IF present THEN [cap |-> cap, bytes |-> Fill(cap, 170), written |-> {}]
    ELSE [cap |-> 0, bytes |-> Fill(0, 0), written |-> {}]

\* XMEMSET / XMEMCPY / byte stores into the caller's buffer: len bytes of src
\* at offset off; what falls beyond the buffer is not kept
StoreOut(o, off, src, len) ==
    [o EXCEPT !.bytes = [i \in 0..(o.cap - 1) |->
                            IF i >= off /\ i < off + len THEN src[i - off] ELSE o.bytes[i]],
              !.written = o.written \cup {i \in 0..(o.cap - 1) : i >= off /\ i < off + len}]

\* a local buffer of a callee: used when the call stored into it
Unused == [used |-> FALSE, v |-> Zero32]

Local(v) == [used |-> TRUE, v |-> v]

NoLocals == [n |-> Unused, p |-> Unused, k |-> Unused, e |-> Unused]

\* what a call leaves behind
Res(ks, rv, u, o, ol, loc) ==
    [keys |-> ks, ret |-> rv, fault |-> FALSE, ub |-> u, out |-> o, outlen |-> ol,
     locals |-> loc]

\* a call stopped by a memory fault: it never returns
Faulted(ks, u, o, ol) ==
    [keys |-> ks, ret |-> 0, fault |-> TRUE, ub |-> u, out |-> o, outlen |-> ol,
     locals |-> NoLocals]

NoArgs ==
    [key |-> NULL, peer |-> NULL, rng |-> FALSE, keysize |-> 0, rngret |-> 0,
     rngwrote |-> FALSE, block |-> Zero32,
     outp |-> FALSE, lenp |-> FALSE, cap |-> 0,
     inp |-> FALSE, in |-> Fill(0, 0), inLen |-> 0, incap |-> 0, roundtrip |-> FALSE, src |-> NULL,
     privp |-> FALSE, priv |-> Zero32, privSz |-> 0,
     pubp |-> FALSE, pub |-> Zero32, pubSz |-> 0,
     hard |-> FALSE, gsz |-> 0, gb |-> 0]

\* the length cell as the caller set it before the call
LenBefore(a) == IF a.lenp THEN a.cap ELSE NoCell

(***************************************************************************)
(* ecc25519_size (lines 298-303).  With key->dp = NULL the read of         *)
(* key->dp->size is an invalid access: it faults (a.hard) or yields        *)
(* whatever lies at that address (a.gsz).                                  *)
(***************************************************************************)
ecc25519_size(ks, key, a) ==
    IF key = NULL THEN [val |-> 0, fault |-> FALSE, ub |-> {}]
    ELSE IF ks[key].dp THEN [val |-> ecc25519_sets_size, fault |-> FALSE, ub |-> {}]
    ELSE IF a.hard THEN [val |-> 0, fault |-> TRUE, ub |-> {"null_read"}]
    ELSE [val |-> a.gsz, fault |-> FALSE, ub |-> {"null_read"}]

(***************************************************************************)
(* ecc25519_make_key (lines 92-130).                                       *)
(***************************************************************************)
\* lines 112-115: the scalar as first stored in key->k.point
MakeKeyScalar(n) == Clamp(n)

\* a faulty store loop: dst[i] = src[i]
StoreAsIs(b) == b

\* lines 122-125: the stored (byte-reversed) form of a buffer
StoreReversed(b) == Reverse32(b)

ecc25519_make_key(ks, a) ==
    IF a.key = NULL \/ ~a.rng
      THEN Res(ks, ECC_BAD_ARG_E, {}, OutBuf(FALSE, 0), NoCell, NoLocals)
    ELSE IF a.keysize # ECC25519_KEYSIZE
      THEN Res(ks, ECC_BAD_ARG_E, {}, OutBuf(FALSE, 0), NoCell, NoLocals)
    ELSE IF a.rngret # 0
      THEN Res(ks, a.rngret, {}, OutBuf(FALSE, 0), NoCell,
               [NoLocals EXCEPT !.n = IF a.rngwrote THEN Local(a.block) ELSE Unused])
    ELSE LET kpt == MakeKeyScalar(a.block)
             p   == curve25519(kpt, basepoint)
             n   == kpt
         IN  Res([ks EXCEPT ![a.key].p = StoreReversed(p), ![a.key].k = StoreReversed(n)],
                 0, {}, OutBuf(FALSE, 0), NoCell,
                 [n |-> Local(Zero32), p |-> Local(p), k |-> Unused,
                  e |-> Local(curve25519_e(kpt))])

(***************************************************************************)
(* ecc25519_shared_secret (lines 133-171).                                 *)
(***************************************************************************)
\* a faulty line 149: the test reads the last stored byte
PeerRejectedLastByte(pt) == pt[ECC25519_KEYSIZE - 1] > 127

\* line 149: public_key->p.point[0] > 0x7F
PeerRejected(pt) == pt[0] > 127

\* lines 159-162: the little-endian scratch copies
ScratchPoint(pub) == Reverse32(pub.p)

\* a faulty lines 159-162: the scalar is copied without the reversal
ScratchScalarUnreversed(priv) == priv.k

\* lines 159-162: k[i] = private_key->k.point[ECC25519_KEYSIZE - i - 1]
ScratchScalar(priv) == Reverse32(priv.k)

ecc25519_shared_secret(ks, a) ==
    LET o == OutBuf(a.outp, a.cap)
    IN  IF a.key = NULL \/ a.peer = NULL \/ ~a.outp \/ ~a.lenp
          THEN Res(ks, BAD_FUNC_ARG, {}, o, LenBefore(a), NoLocals)
        ELSE IF PeerRejected(ks[a.peer].p)
          THEN Res(ks, ECC_BAD_ARG_E, {}, o, LenBefore(a), NoLocals)
        ELSE IF a.cap < ECC25519_KEYSIZE
          THEN Res(ks, BUFFER_E, {}, o, LenBefore(a), NoLocals)
        ELSE LET p  == ScratchPoint(ks[a.peer])
                 k  == ScratchScalar(ks[a.key])
                 o1 == StoreOut(o, 0, Zero32, ECC25519_KEYSIZE)
                 o2 == StoreOut(o1, 0, curve25519(k, p), ECC25519_KEYSIZE)
             IN  Res(ks, 0, {}, o2, ECC25519_KEYSIZE,
                     [n |-> Unused, p |-> Local(Zero32), k |-> Local(Zero32),
                      e |-> Local(curve25519_e(k))])

(***************************************************************************)
(* ecc25519_export_public (lines 176-197).  Neither outLen nor the room in *)
(* out is checked: the stores through outLen = NULL and past the end of    *)
(* out are invalid accesses.                                               *)
(***************************************************************************)
\* the first len bytes of a 32-byte buffer
Prefix(b, len) == [i \in 0..(len - 1) |-> b[i]]

ecc25519_export_public(ks, a) ==
    LET o == OutBuf(a.outp, a.cap)
    IN  IF a.key = NULL \/ ~a.outp
          THEN Res(ks, BAD_FUNC_ARG, {}, o, LenBefore(a), NoLocals)
        ELSE
        LET sz == ecc25519_size(ks, a.key, a)
            keySz == sz.val
            offset == 2
            total == keySz + offset
            u  == sz.ub \cup (IF total > a.cap THEN {"oob_write"} ELSE {})
                        \cup (IF ~a.lenp THEN {"null_write"} ELSE {})
            o1 == StoreOut(o, offset, Prefix(ks[a.key].p, keySz), keySz)
            \* lines 193-194: out[0] = *outLen; out[1] = key->f
            o3 == [o1 EXCEPT !.bytes = [i \in 0..(o.cap - 1) |->
                                          IF i = 0 THEN total % 256
                                          ELSE IF i = 1 THEN ks[a.key].f
                                          ELSE o1.bytes[i]],
                             !.written = o1.written \cup {0, 1}]
        IN  IF sz.fault THEN Faulted(ks, sz.ub, o, LenBefore(a))
            ELSE IF a.hard /\ u # {} THEN Faulted(ks, u, o1, LenBefore(a))
            ELSE Res(ks, 0, u, o3, IF a.lenp THEN total ELSE NoCell, NoLocals)

(***************************************************************************)
(* ecc25519_import_public (lines 201-219).  in and key are not checked,    *)
(* and line 214 copies inLen bytes, not keySz: it reads in[2..inLen+1] and *)
(* stores inLen bytes from the start of key->p.point, which runs on into   *)
(* key->k.point (p and k are adjacent byte arrays of the struct).          *)
(***************************************************************************)
\* line 214: the number of bytes XMEMCPY moves
ImportCopyLen(inLen, keySz) == inLen

\* the bytes the caller's in buffer really holds
InCap(a) == IF a.inp THEN a.incap ELSE 0

ecc25519_import_public(ks, a) ==
    LET sz == ecc25519_size(ks, a.key, a)
        keySz == sz.val
        offset == 2
        len == ImportCopyLen(a.inLen, keySz)
        src == [j \in 0..(len - 1) |->
                   IF a.inp /\ offset + j < InCap(a) THEN a.in[offset + j] ELSE a.gb]
        tag == IF a.inp THEN a.in[1] ELSE a.gb
        u  == sz.ub
              \cup (IF ~a.inp THEN {"null_read"} ELSE {})
        um == u \cup (IF a.inp /\ offset + len > InCap(a) THEN {"oob_read"} ELSE {})
                \cup (IF offset + len > a.inLen THEN {"in_past_len"} ELSE {})
                \cup (IF a.key = NULL THEN {"null_write"} ELSE {})
                \cup (IF a.key # NULL /\ len > ECC25519_KEYSIZE THEN {"p_overflow"} ELSE {})
        invalid == um \cap {"null_read", "null_write", "oob_read"}
    IN  IF sz.fault THEN Faulted(ks, sz.ub, OutBuf(FALSE, 0), NoCell)
        ELSE IF a.inLen # keySz + offset
          THEN Res(ks, ECC_BAD_ARG_E, sz.ub, OutBuf(FALSE, 0), NoCell, NoLocals)
        ELSE IF ~a.inp /\ a.hard THEN Faulted(ks, u, OutBuf(FALSE, 0), NoCell)
        ELSE IF tag # montgomery_x_le
          THEN Res(ks, ECC_BAD_ARG_E, u, OutBuf(FALSE, 0), NoCell, NoLocals)
        ELSE IF a.hard /\ invalid # {} THEN Faulted(ks, um, OutBuf(FALSE, 0), NoCell)
        ELSE IF a.key = NULL THEN Res(ks, 0, um, OutBuf(FALSE, 0), NoCell, NoLocals)
        ELSE Res([ks EXCEPT
                    ![a.key].p = [i \in 0..(ECC25519_KEYSIZE - 1) |->
                                    IF i < len THEN src[i] ELSE ks[a.key].p[i]],
                    ![a.key].k = [i \in 0..(ECC25519_KEYSIZE - 1) |->
                                    IF ECC25519_KEYSIZE + i < len
                                      THEN src[ECC25519_KEYSIZE + i] ELSE ks[a.key].k[i]],
                    ![a.key].dp = TRUE],
                 0, um, OutBuf(FALSE, 0), NoCell, NoLocals)

(***************************************************************************)
(* ecc25519_export_private_raw (lines 224-242).                            *)
(***************************************************************************)
ecc25519_export_private_raw(ks, a) ==
    LET o == OutBuf(a.outp, a.cap)
    IN  IF a.key = NULL \/ ~a.outp \/ ~a.lenp
          THEN Res(ks, ECC_BAD_ARG_E, {}, o, LenBefore(a), NoLocals)
        ELSE
        LET sz == ecc25519_size(ks, a.key, a)
            keySz == sz.val
            o1 == StoreOut(o, 0, Fill(keySz, 0), keySz)
            o2 == StoreOut(o1, 0, Prefix(ks[a.key].k, keySz), keySz)
        IN  IF sz.fault THEN Faulted(ks, sz.ub, o, LenBefore(a))
            ELSE IF a.cap < keySz THEN Res(ks, BUFFER_E, sz.ub, o, keySz, NoLocals)
            ELSE Res(ks, 0, sz.ub, o2, keySz, NoLocals)

(***************************************************************************)
(* ecc25519_import_private_raw (lines 246-261).  priv, pub and key are not *)
(* checked; with key = NULL the sizes must be 0 and nothing is copied.     *)
(***************************************************************************)
ecc25519_import_private_raw(ks, a) ==
    LET sz == ecc25519_size(ks, a.key, a)
        keySz == sz.val
        nullsrc == (a.privSz > 0 /\ ~a.privp) \/ (a.pubSz > 0 /\ ~a.pubp)
        u == sz.ub \cup (IF nullsrc THEN {"null_read"} ELSE {})
        from(present, b, i) == IF present THEN b[i] ELSE a.gb
    IN  IF sz.fault THEN Faulted(ks, sz.ub, OutBuf(FALSE, 0), NoCell)
        ELSE IF a.privSz # keySz \/ a.pubSz # keySz
          THEN Res(ks, ECC_BAD_ARG_E, sz.ub, OutBuf(FALSE, 0), NoCell, NoLocals)
        ELSE IF nullsrc /\ a.hard THEN Faulted(ks, u, OutBuf(FALSE, 0), NoCell)
        ELSE IF a.key = NULL THEN Res(ks, 0, u, OutBuf(FALSE, 0), NoCell, NoLocals)
        ELSE Res([ks EXCEPT
                    ![a.key].k = [i \in 0..(ECC25519_KEYSIZE - 1) |->
                                    IF i < a.privSz THEN from(a.privp, a.priv, i)
                                    ELSE ks[a.key].k[i]],
                    ![a.key].p = [i \in 0..(ECC25519_KEYSIZE - 1) |->
                                    IF i < a.pubSz THEN from(a.pubp, a.pub, i)
                                    ELSE ks[a.key].p[i]]],
                 0, u, OutBuf(FALSE, 0), NoCell, NoLocals)

(***************************************************************************)
(* ecc25519_init (lines 264-280), ecc25519_free (lines 286-294).           *)
(***************************************************************************)
ecc25519_init(ks, a) ==
    IF a.key = NULL THEN Res(ks, ECC_BAD_ARG_E, {}, OutBuf(FALSE, 0), NoCell, NoLocals)
    ELSE Res([ks EXCEPT ![a.key] = [dp |-> TRUE, f |-> montgomery_x_le,
                                    p |-> Zero32, k |-> Zero32]],
             0, {}, OutBuf(FALSE, 0), NoCell, NoLocals)

\* a void function: ret stays 0
ecc25519_free(ks, a) ==
    IF a.key = NULL THEN Res(ks, 0, {}, OutBuf(FALSE, 0), NoCell, NoLocals)
    ELSE Res([ks EXCEPT ![a.key].dp = FALSE, ![a.key].p = Zero32, ![a.key].k = Zero32],
             0, {}, OutBuf(FALSE, 0), NoCell, NoLocals)

\* ecc25519_size called by the user
SizeCall(ks, a) ==
    LET sz == ecc25519_size(ks, a.key, a)
    IN  IF sz.fault THEN Faulted(ks, sz.ub, OutBuf(FALSE, 0), NoCell)
        ELSE Res(ks, sz.val, sz.ub, OutBuf(FALSE, 0), NoCell, NoLocals)

(***************************************************************************)
(* The callers: what they pass.  A caller stops at the first call that     *)
(* faults or returns an error code (these leave every key as it was).      *)
(***************************************************************************)
MaxCalls == 3

MaxCallsAny == 2

\* callers that pass valid pointers, and callers that may pass NULL for any
WellFormed == [kp |-> KeyIds, pb |-> {TRUE}, max |-> MaxCalls]

AnyCaller == [kp |-> KeyPtr, pb |-> BOOLEAN, max |-> MaxCallsAny]

\* RNG_GenerateBlock: <<return value, whether n was filled, the block>>
RngCases ==
    {<<0, TRUE, blk>> : blk \in RandomBlocks}
      \cup {<<RNG_FAILURE_E, TRUE, Blk(165, 198, 68)>>, <<RNG_FAILURE_E, FALSE, Zero32>>}

NoRng == <<0, FALSE, Zero32>>

\* sizes of the output buffers callers bring (and announce in *outlen):
\* for a serialized public key, and for a secret or a raw private key
OutCaps == {16, 34, 40}

SecretCaps == {16, 32}

\* what an invalid read may yield when it does not fault
GarbageSizes == {0, ecc25519_sets_size}

GarbageBytes == {0, montgomery_x_le}

\* a serialized public key: len bytes announced, cap bytes in the buffer
Wire(lenbyte, tag, pt, len, cap) ==
    [in |-> [i \in 0..(cap - 1) |->
               IF i = 0 THEN lenbyte ELSE IF i = 1 THEN tag
               ELSE IF i < 2 + ECC25519_KEYSIZE THEN pt[i - 2] ELSE 170],
     inLen |-> len, incap |-> cap, roundtrip |-> FALSE, src |-> NULL]

FixedWires ==
    { Wire(2, montgomery_x_le, Zero32, 2, 2),
      Wire(34, montgomery_x_le + 1, LowPoint, 34, 34),
      Wire(34, montgomery_x_le, HighPoint, 34, 34),
      Wire(34, montgomery_x_le, LowPoint, 34, 36) }

\* the buffer the previous call, a successful export_public, filled
ExportedWire ==
    IF op = "export_public" /\ ~fault /\ ret = 0 /\ outlen # NoCell /\ outlen <= out.cap
      THEN {[in |-> out.bytes, inLen |-> outlen, incap |-> out.cap,
             roundtrip |-> TRUE, src |-> args.key]}
      ELSE {}

NoWire == [in |-> Fill(0, 0), inLen |-> 0, incap |-> 0, roundtrip |-> FALSE, src |-> NULL]

\* the choices that matter only when the call makes an invalid access
Canonical(a, r) ==
    /\ (r.ub \cap {"null_read", "null_write", "oob_read", "oob_write"} = {})
          => (~a.hard /\ a.gsz = 0 /\ a.gb = 0)
    /\ a.hard => (a.gsz = 0 /\ a.gb = 0)

(***************************************************************************)
(* The state machine of the key manager.                                   *)
(***************************************************************************)
KMInit ==
    /\ keys = [i \in KeyIds |-> InitKey]
    /\ op = "none"
    /\ args = NoArgs
    /\ pre = [i \in KeyIds |-> InitKey]
    /\ ret = 0
    /\ fault = FALSE
    /\ ub = {}
    /\ out = OutBuf(FALSE, 0)
    /\ outlen = NoCell
    /\ locals = NoLocals
    /\ ncalls = 0
    /\ made = {}

Init == KMInit /\ lad = LadIdle

CanCall(c) == ncalls < c.max /\ ~fault /\ ret >= 0

\* the call name(a) is made and leaves r
Apply(name, a, r) ==
    /\ keys' = r.keys
    /\ op' = name
    /\ args' = a
    /\ pre' = keys
    /\ ret' = r.ret
    /\ fault' = r.fault
    /\ ub' = r.ub
    /\ out' = r.out
    /\ outlen' = r.outlen
    /\ locals' = r.locals
    /\ ncalls' = ncalls + 1
    /\ made' = {i \in made : r.keys[i] = keys[i] /\ ~(name = "make_key" /\ a.key = i)}
                \cup (IF name = "make_key" /\ r.ret = 0 /\ ~r.fault THEN {a.key} ELSE {})
    /\ UNCHANGED lad

MakeKey(c) ==
    /\ CanCall(c)
    /\ \E key \in c.kp, rng \in c.pb, keysize \in {ECC25519_KEYSIZE, 16} :
       \E rc \in (IF key # NULL /\ rng /\ keysize = ECC25519_KEYSIZE
                    THEN RngCases ELSE {NoRng}) :
          LET a == [NoArgs EXCEPT !.key = key, !.rng = rng, !.keysize = keysize,
                                  !.rngret = rc[1], !.rngwrote = rc[2], !.block = rc[3]]
          IN  Apply("make_key", a, ecc25519_make_key(keys, a))

SharedSecret(c) ==
    /\ CanCall(c)
    /\ \E key \in c.kp, peer \in c.kp, outp \in c.pb, lenp \in c.pb, cap \in SecretCaps :
          LET a == [NoArgs EXCEPT !.key = key, !.peer = peer, !.outp = outp,
                                  !.lenp = lenp, !.cap = cap]
          IN  Apply("shared_secret", a, ecc25519_shared_secret(keys, a))

ExportPublic(c) ==
    /\ CanCall(c)
    /\ \E key \in c.kp, outp \in c.pb, lenp \in c.pb, cap \in OutCaps,
          hard \in BOOLEAN, gsz \in GarbageSizes :
          LET a == [NoArgs EXCEPT !.key = key, !.outp = outp, !.lenp = lenp, !.cap = cap,
                                  !.hard = hard, !.gsz = gsz]
              r == ecc25519_export_public(keys, a)
          IN  Canonical(a, r) /\ Apply("export_public", a, r)

ImportPublic(c) ==
    /\ CanCall(c)
    /\ \E key \in c.kp, inp \in c.pb :
       \E w \in (IF inp THEN FixedWires \cup ExportedWire
                 ELSE {[NoWire EXCEPT !.inLen = n] : n \in {2, 34}}),
          hard \in BOOLEAN, gsz \in GarbageSizes, gb \in GarbageBytes :
          LET a == [NoArgs EXCEPT !.key = key, !.inp = inp, !.in = w.in,
                                  !.inLen = w.inLen, !.incap = w.incap,
                                  !.roundtrip = w.roundtrip, !.src = w.src,
                                  !.hard = hard, !.gsz = gsz, !.gb = gb]
              r == ecc25519_import_public(keys, a)
          IN  Canonical(a, r) /\ Apply("import_public", a, r)

ExportPrivateRaw(c) ==
    /\ CanCall(c)
    /\ \E key \in c.kp, outp \in c.pb, lenp \in c.pb, cap \in SecretCaps,
          hard \in BOOLEAN, gsz \in GarbageSizes :
          LET a == [NoArgs EXCEPT !.key = key, !.outp = outp, !.lenp = lenp, !.cap = cap,
                                  !.hard = hard, !.gsz = gsz]
              r == ecc25519_export_private_raw(keys, a)
          IN  Canonical(a, r) /\ Apply("export_private_raw", a, r)

ImportPrivateRaw(c) ==
    /\ CanCall(c)
    /\ \E key \in c.kp, privp \in c.pb, pubp \in c.pb,
          privSz \in {0, ECC25519_KEYSIZE}, pubSz \in {0, ECC25519_KEYSIZE} :
       \E priv \in (IF privp THEN PrivInputs ELSE {Zero32}),
          pub \in (IF pubp THEN PubInputs ELSE {Zero32}),
          hard \in BOOLEAN, gsz \in GarbageSizes, gb \in GarbageBytes :
          LET a == [NoArgs EXCEPT !.key = key, !.privp = privp, !.pubp = pubp,
                                  !.priv = priv, !.pub = pub,
                                  !.privSz = privSz, !.pubSz = pubSz,
                                  !.hard = hard, !.gsz = gsz, !.gb = gb]
              r == ecc25519_import_private_raw(keys, a)
          IN  Canonical(a, r) /\ Apply("import_private_raw", a, r)

InitKeyCall(c) ==
    /\ CanCall(c)
    /\ \E key \in c.kp :
          LET a == [NoArgs EXCEPT !.key = key]
          IN  Apply("init", a, ecc25519_init(keys, a))

FreeKey(c) ==
    /\ CanCall(c)
    /\ \E key \in c.kp :
          LET a == [NoArgs EXCEPT !.key = key]
          IN  Apply("free", a, ecc25519_free(keys, a))

Size(c) ==
    /\ CanCall(c)
    /\ \E key \in c.kp, hard \in BOOLEAN, gsz \in GarbageSizes :
          LET a == [NoArgs EXCEPT !.key = key, !.hard = hard, !.gsz = gsz]
              r == SizeCall(keys, a)
          IN  Canonical(a, r) /\ Apply("size", a, r)

Calls(c) ==
    \/ MakeKey(c)
    \/ SharedSecret(c)
    \/ ExportPublic(c)
    \/ ImportPublic(c)
    \/ ExportPrivateRaw(c)
    \/ ImportPrivateRaw(c)
    \/ InitKeyCall(c)
    \/ FreeKey(c)
    \/ Size(c)

Next == Calls(WellFormed)

Spec == Init /\ [][Next]_vars

NextAny == Calls(AnyCaller)

SpecAny == Init /\ [][NextAny]_vars

(***************************************************************************)
(* The ladder runs: every scalar and point of the input sets.              *)
(***************************************************************************)
LadInit ==
    /\ KMInit
    /\ \E n \in LadderScalars, p \in LadderPoints : lad = LadStart(n, p)

LadNext == LadIterate \/ LadFinish

SpecLadder == LadInit /\ [][LadNext]_vars

(***************************************************************************)
(* Properties of the key manager (checked in Spec unless said otherwise).  *)
(***************************************************************************)

\* C1: DH agreement.  When sharedSecret(A, B) has just been called with room
\* for 32 bytes on two key pairs that successful makeKeyPair calls produced,
\* it succeeds, and sharedSecret(B, A) on the same keys succeeds too and
\* writes the same 32 bytes.
C1_Agreement ==
    (/\ op = "shared_secret"
     /\ args.key \in made /\ args.peer \in made
     /\ args.outp /\ args.lenp /\ args.cap >= 32)
    => /\ ~fault /\ ret = 0
       /\ out.written = 0..31
       /\ LET back == ecc25519_shared_secret(
                          pre, [args EXCEPT !.key = args.peer, !.peer = args.key])
          IN  /\ back.ret = 0 /\ ~back.fault
              /\ back.out.written = 0..31
              /\ \A i \in 0..31 : back.out.bytes[i] = out.bytes[i]

\* C1 witness: a successful sharedSecret between two different generated key
\* pairs with different private scalars, whose secret is not all zero.
C1_Witness ==
    /\ op = "shared_secret" /\ ret = 0 /\ ~fault
    /\ args.key # args.peer
    /\ args.key \in made /\ args.peer \in made
    /\ keys[args.key].k # keys[args.peer].k
    /\ \E i \in 0..31 : out.bytes[i] # 0

\* C2: after a successful makeKeyPair that drew the block n, the stored
\* private scalar is the byte-reversal of clamp(n) (stored byte 31 has its
\* low three bits clear, stored byte 0 has bit 7 clear and bit 6 set) and the
\* stored public point is the byte-reversal of the ladder's result for
\* clamp(n) and the base point {9, 0, ..., 0}.
C2_StoredKey ==
    (op = "make_key" /\ ret = 0 /\ ~fault)
    => LET n  == args.block
           cl == [i \in 0..31 |->
                    IF i = 0 THEN n[0] - (n[0] % 8)
                    ELSE IF i = 31 THEN (n[31] % 64) + 64
                    ELSE n[i]]
           q  == curve25519(cl, [i \in 0..31 |-> IF i = 0 THEN 9 ELSE 0])
           k  == keys[args.key].k
           p  == keys[args.key].p
       IN  /\ \A i \in 0..31 : k[31 - i] = cl[i]
           /\ k[31] % 8 = 0
           /\ k[0] < 128
           /\ (k[0] \div 64) % 2 = 1
           /\ \A i \in 0..31 : p[31 - i] = q[i]
           /\ keys[args.key].dp = pre[args.key].dp
           /\ \A j \in KeyIds : j # args.key => keys[j] = pre[j]

\* C2 witness: a successful makeKeyPair whose random block the clamp changes
\* at both ends and whose public point is not zero.
C2_Witness ==
    /\ op = "make_key" /\ ret = 0 /\ ~fault
    /\ args.block[0] % 8 # 0
    /\ args.block[31] >= 128
    /\ keys[args.key].p # Zero32

\* C3: sharedSecret with all arguments present returns the invalid-argument
\* error, writes nothing to the output buffer and leaves the caller's length
\* as it was whenever byte 0 of the peer's stored public point exceeds 0x7F,
\* whatever the private scalar and the buffer size; when that byte is at
\* most 0x7F and the buffer holds at least 32 bytes the call succeeds.
C3_Rejection ==
    (op = "shared_secret" /\ args.key # NULL /\ args.peer # NULL /\ args.outp /\ args.lenp)
    => /\ (pre[args.peer].p[0] > 127)
            => /\ ~fault /\ ret = ECC_BAD_ARG_E
               /\ out.written = {}
               /\ \A i \in 0..(args.cap - 1) : out.bytes[i] = 170
               /\ outlen = args.cap
               /\ keys = pre
       /\ (pre[args.peer].p[0] <= 127 /\ args.cap >= 32)
            => (~fault /\ ret = 0)

\* C3 witness: sharedSecret was called with a buffer of 32 bytes and a peer
\* whose stored public point starts with a byte above 0x7F, on a private key
\* that is not zero.
C3_Witness ==
    /\ op = "shared_secret"
    /\ pre[args.peer].p[0] > 127
    /\ args.cap >= 32
    /\ pre[args.key].k # Zero32
    /\ ret = ECC_BAD_ARG_E

\* C4: sharedSecret with all arguments present, an acceptable peer point and
\* a buffer capacity below 32 fails with the buffer-too-small error, sets the
\* caller's length to 32 and writes nothing to the output buffer.
C4_TooSmall ==
    (/\ op = "shared_secret"
     /\ args.key # NULL /\ args.peer # NULL /\ args.outp /\ args.lenp
     /\ pre[args.peer].p[0] <= 127
     /\ args.cap < 32)
    => /\ ~fault /\ ret = BUFFER_E
       /\ outlen = 32
       /\ out.written = {}

\* C5: size never fails: after any sequence of calls it returns 32 on a key
\* pair whose domain-parameter reference is set and 0 on one whose reference
\* is cleared, and the operations that call size do not fault on a wiped
\* key pair.
C5_SizeTotal ==
    /\ (op = "size" /\ args.key # NULL)
         => /\ ~fault
            /\ ret = (IF pre[args.key].dp THEN 32 ELSE 0)
    /\ (/\ op \in {"export_public", "import_public", "export_private_raw",
                   "import_private_raw"}
        /\ args.key # NULL
        /\ ~pre[args.key].dp)
         => ~fault

\* C7: exportPublic of an initialized key pair into a buffer with room emits
\* 34 bytes [34, format tag, the 32 stored public-point bytes], and
\* importPublic of exactly those 34 bytes into an initialized key pair
\* succeeds and makes its public point equal to the exported one.
C7_RoundTrip ==
    /\ (op = "export_public" /\ pre[args.key].dp /\ args.lenp /\ args.cap >= 34)
         => /\ ~fault /\ ret = 0
            /\ outlen = 34
            /\ out.bytes[0] = 34
            /\ out.bytes[1] = pre[args.key].f
            /\ \A i \in 0..31 : out.bytes[2 + i] = pre[args.key].p[i]
    /\ (/\ op = "import_public" /\ args.roundtrip
        /\ args.incap = 34 /\ args.inLen = 34
        /\ pre[args.key].dp /\ pre[args.src].dp)
         => /\ ~fault /\ ret = 0
            /\ keys[args.key].p = pre[args.src].p

\* C9: a successful importPublic changes only the public point (set to input
\* bytes 2..33) and the domain-parameter reference of its key pair; the
\* private scalar and the format tag are unchanged and no input byte beyond
\* index 33 is read.
C9_ImportFrame ==
    (op = "import_public" /\ ~fault /\ ret = 0)
    => /\ \A i \in 0..31 : keys[args.key].p[i] = args.in[2 + i]
       /\ keys[args.key].dp
       /\ keys[args.key].k = pre[args.key].k
       /\ keys[args.key].f = pre[args.key].f
       /\ \A j \in KeyIds : j # args.key => keys[j] = pre[j]
       /\ ub \cap {"in_past_len", "oob_read", "p_overflow"} = {}

\* C10: when makeKeyPair or sharedSecret returns, on success or with an
\* error, every local buffer the call filled with secret material (n in
\* makeKeyPair, the scratch copies k and p in sharedSecret, e in the scalar
\* multiplier) holds only zero bytes.
C10_LocalsWiped ==
    /\ (op = "make_key" /\ ~fault)
         => \A b \in {"n", "e"} : locals[b].used => locals[b].v = Zero32
    /\ (op = "shared_secret" /\ ~fault)
         => \A b \in {"k", "p", "e"} : locals[b].used => locals[b].v = Zero32

(***************************************************************************)
(* Property of callers that may pass NULL (checked in SpecAny).            *)
(***************************************************************************)

\* C6: every fallible operation called with a required input absent (key
\* pair, input bytes, output buffer or output-length cell) returns the
\* invalid-argument error and neither reads nor writes through the absent
\* input, whatever the other arguments are.
C6_NullRejected ==
    LET absent ==
          \/ op = "make_key" /\ (args.key = NULL \/ ~args.rng)
          \/ op = "shared_secret"
               /\ (args.key = NULL \/ args.peer = NULL \/ ~args.outp \/ ~args.lenp)
          \/ op = "export_public" /\ (args.key = NULL \/ ~args.outp \/ ~args.lenp)
          \/ op = "import_public" /\ (args.key = NULL \/ ~args.inp)
          \/ op = "export_private_raw" /\ (args.key = NULL \/ ~args.outp \/ ~args.lenp)
          \/ op = "import_private_raw" /\ (args.key = NULL \/ ~args.privp \/ ~args.pubp)
          \/ op = "init" /\ args.key = NULL
    IN  absent
        => /\ ~fault
           /\ ret \in {BAD_FUNC_ARG, ECC_BAD_ARG_E}
           /\ ub \cap {"null_read", "null_write"} = {}
           /\ keys = pre
           /\ out.written = {}

(***************************************************************************)
(* Property of the ladder (checked in SpecLadder).                         *)
(***************************************************************************)

\* C8: at the end of every loop iteration the registers, with the pending
\* swap recorded in swap undone, stand for (m p, (m + 1) p), m being the
\* integer formed by the bits of clamp(n) from bit 254 down to the current
\* one, and they equal those of the branching textbook ladder; after the
\* final conditional swap (x2 : z2) stands for clamp(n) p, the loop has run
\* exactly 255 times, and the result is the same for every n that differs
\* only in bit 255 or in the low three bits.
C8_Ladder ==
    LET sw == IF lad.phase = "loop" THEN lad.r.swap ELSE 0
        ks == fe_cswap(lad.k2, lad.k3, sw)
        xs == fe_cswap(lad.r.x2, lad.r.x3, sw)
        zs == fe_cswap(lad.r.z2, lad.r.z3, sw)
    IN  /\ ks[1] = lad.m
        /\ ks[2] = (lad.m + 1) % LabelMod
        /\ <<xs[1], zs[1]>> = lad.ref[1]
        /\ <<xs[2], zs[2]>> = lad.ref[2]
        /\ lad.phase = "loop" => lad.iters = 254 - lad.pos
        /\ lad.phase = "done"
             => /\ lad.iters = 255
                /\ lad.pos = 0 - 1
                /\ lad.q = fe_tobytes(fe_mul(lad.ref[1][1], fe_invert(lad.ref[1][2])))
                /\ \A low \in 0..7, top \in 0..1 :
                      LadderResult([lad.n EXCEPT
                                      ![0] = (lad.n[0] - (lad.n[0] % 8)) + low,
                                      ![31] = (lad.n[31] % 128) + 128 * top],
                                   lad.p) = lad.q

\* C8 witness: late in a run whose scalar has bit 255 and low bits set, an
\* iteration has ended with the swap pending and the two register pairs
\* different.
C8_Witness ==
    /\ lad.phase = "loop"
    /\ lad.iters > 200
    /\ lad.n[31] >= 128 /\ lad.n[0] % 8 # 0
    /\ lad.r.swap = 1
    /\ lad.r.x2 # lad.r.x3
    /\ lad.r.z2 # 0 /\ lad.r.z3 # 0

=============================================================================
